---- MODULE Spec2Model ----
(***************************************************************************)
(* Model of the corpus preparation pipeline of src/nmt/preprocess.py       *)
(* (tokenize, preprocess) and of the metric accumulator of                 *)
(* src/nmt/utils/stats.py (Stats).                                         *)
(*                                                                         *)
(* preprocess is one sequential run.  Each stage of its body is an action, *)
(* guarded by the program counter pc; an uncaught exception moves pc to    *)
(* "failed" and records the exception in error.                            *)
(*                                                                         *)
(* Optional values (Python None) are sequences of length at most one:      *)
(* None is <<>> and a present value x is <<x>>.                            *)
(***************************************************************************)
EXTENDS Integers, Sequences, FiniteSets, TLC

VARIABLES
    config,            \* the config dict read by preprocess
    raw_datasets,      \* DatasetDict: split name -> set of rows
    loaded,            \* history: raw_datasets as load_dataset returned it
    split_rows,        \* history: raw_datasets at line 55 (after the splitter)
    num_rows,          \* line 55: split name -> row count before filtering
    src_tokenizer,     \* line 64
    target_tokenizer,  \* line 65
    train_dataset,     \* line 81
    validation_dataset,\* line 89
    test_dataset,      \* line 97
    data_collator,     \* line 108
    data_loaders,      \* line 118
    files,             \* artifacts present under checkpoints_dir
    completed,         \* history: the stages that ran to their end, in order
    pc,                \* the stage about to run, "done" or "failed"
    error,             \* the uncaught exception, "" when none
    lists,             \* the list objects: reference -> list of arrays
    stats,             \* Stats instances: instance -> Optional fields
    raised,            \* the exception the last Stats call raised, "" when none
    own_batches        \* history: instance -> what its own update_step calls appended

pvars == <<config, raw_datasets, loaded, split_rows, num_rows, src_tokenizer,
           target_tokenizer, train_dataset, validation_dataset, test_dataset,
           data_collator, data_loaders, files, completed, pc, error>>
svars == <<lists, stats, raised, own_batches>>
vars == <<pvars, svars>>

None == <<>>
Some(x) == <<x>>
IsNone(o) == o = <<>>
Get(o) == o[1]

(***************************************************************************)
(* Bounds of the model.                                                    *)
(***************************************************************************)
MaxTrainSetSize == 2   \* largest configured max_train_set_size
MaxPadId == 1          \* largest id a trained tokenizer reports for PAD
MaxUpdates == 2        \* update_step calls per Stats instance
MaxTokenId == 1        \* largest token id in a prediction or label array
MaxLoss == 1           \* largest loss of one batch
BatchLen == 1          \* elements of a prediction or label array

(***************************************************************************)
(* The corpus.  A row is a record of the raw corpus; its translation pair  *)
(* is text, a sequence of characters.  Rows 1 and 2 are the pairs          *)
(* ("a b", "c d") and ("a a a a a a", "c").                                *)
(***************************************************************************)
Catalogue ==
    << [src |-> <<"a", " ", "b">>,
        tgt |-> <<"c", " ", "d">>],
       [src |-> <<"a", " ", "a", " ", "a", " ", "a", " ", "a", " ", "a">>,
        tgt |-> <<"c">>],
       [src |-> <<"b", " ", "a", "b">>,
        tgt |-> <<"d", " ", "c", " ", "c", " ", "d", " ", "c">>],
       [src |-> <<"b", " ", "b", " ", "a", " ", "a", "b">>,
        tgt |-> <<"d", " ", "d", " ", "c", " ", "d">>] >>

Rows == 1..Len(Catalogue)
Langs == {"src", "tgt"}
SplitNames == {"train", "validation", "test"}

Sentence(row, lang) == Catalogue[row][lang]

PAD_TOKEN == <<"[PAD]">>
SOS_TOKEN == <<"[SOS]">>
EOS_TOKEN == <<"[EOS]">>
UNK_TOKEN == <<"[UNK]">>

\* tokenize, line 29: special_tokens of the WordLevelTrainer
SpecialTokens == <<PAD_TOKEN, SOS_TOKEN, EOS_TOKEN, UNK_TOKEN>>

Range(s) == {s[i] : i \in DOMAIN s}

(***************************************************************************)
(* tokenizers.pre_tokenizers.Whitespace (tokenize, line 26): the text is   *)
(* cut at whitespace; every maximal run of other characters is one word.   *)
(***************************************************************************)
RECURSIVE WhitespaceFrom(_, _, _)
WhitespaceFrom(text, word, words) ==
    IF text = <<>>
    THEN IF word = <<>> THEN words ELSE Append(words, word)
    ELSE IF Head(text) = " "
         THEN WhitespaceFrom(Tail(text), <<>>,
                             IF word = <<>> THEN words ELSE Append(words, word))
         ELSE WhitespaceFrom(Tail(text), Append(word, Head(text)), words)

Whitespace(text) == WhitespaceFrom(text, <<>>, <<>>)

\* occurrences of word w in the sequence of words ws
RECURSIVE Occurrences(_, _)
Occurrences(w, ws) ==
    IF ws = <<>> THEN 0
    ELSE (IF Head(ws) = w THEN 1 ELSE 0) + Occurrences(w, Tail(ws))

RECURSIVE SumOver(_, _, _)
SumOver(S, w, sentences) ==
    IF S = {} THEN 0
    ELSE LET r == CHOOSE x \in S : TRUE
         IN  Occurrences(w, Whitespace(sentences[r])) + SumOver(S \ {r}, w, sentences)

\* dataset_util.create_iter_from_dataset: the sentences of one language,
\* one per row of the dataset
CreateIterFromDataset(dataset, lang) == [r \in dataset |-> Sentence(r, lang)]

\* WordLevelTrainer.train_from_iterator (tokenize, lines 27-32): the special
\* tokens, then every word seen at least min_frequency times
TrainedVocab(dataset_iter, min_frequency) ==
    LET words == UNION {Range(Whitespace(dataset_iter[r])) : r \in DOMAIN dataset_iter}
    IN  Range(SpecialTokens)
        \cup {w \in words : SumOver(DOMAIN dataset_iter, w, dataset_iter) >= min_frequency}

\* faulty variant of Tokenize: min_freq does not reach the trainer
Tokenize_IgnoresMinFreq(dataset, lang, min_freq, pad_id) ==
    [vocab  |-> TrainedVocab(CreateIterFromDataset(dataset, lang), 1),
     pad_id |-> pad_id]

\* tokenize, lines 20-35.  pad_id is the id the trained tokenizer reports for
\* PAD: the library assigns it, and preprocess does not rely on its value
\* (it asserts the two ids equal at line 106), so the model leaves it open.
Tokenize(dataset, lang, min_freq, pad_id) ==
    [vocab  |-> TrainedVocab(CreateIterFromDataset(dataset, lang), min_freq),
     pad_id |-> pad_id]

\* tokenize, line 22: tokenizer_basename.format(lang)
TokenizerPath(lang) == <<"tokenizer", lang>>
\* preprocess, line 124
DataLoadersPath == <<"data_loaders", "all">>

\* Tokenizer.token_to_id(const.PAD_TOKEN), lines 106-107
TokenToIdPad(tokenizer) == tokenizer.pad_id

\* preprocess, lines 64-65: min_freq=2 in both calls
MinFreq == 2
\* preprocess, line 68
num_reserved_tokens == 2


(***************************************************************************)
(* The inputs of a run: the raw corpus and the config.                     *)
(***************************************************************************)
\* load_dataset, lines 38-42: a DatasetDict with at least a train split;
\* every row belongs to at most one split
RawCorpora ==
    LET KeySets == {K \in SUBSET SplitNames : "train" \in K}
        All == UNION {[K -> SUBSET Rows] : K \in KeySets}
    IN  {c \in All : \A j, k \in DOMAIN c : j # k => c[j] \cap c[k] = {}}

\* val_size_rate: a fraction num/den, written <<num, den>>
ValSizeRates == {<<1, 2>>, <<1, 4>>}
SeqLengths == {4, 6}

Configs ==
    [max_train_set_size : {None} \cup {Some(n) : n \in 1..MaxTrainSetSize},
     val_size_rate      : {None} \cup {Some(r) : r \in ValSizeRates},
     seq_length         : SeqLengths]

(***************************************************************************)
(* The stages of preprocess, in program order.                             *)
(***************************************************************************)
\* faulty variant of Stages: the filter runs before the target tokenizer is trained
Stages_FilterBeforeTargetTokenizer ==
    <<"subsample", "split", "normalize", "tokenize_src", "filter",
      "tokenize_target", "train_dataset", "validation_dataset", "test_dataset",
      "assert_pad", "loaders", "save">>

\* faulty variant of Stages: the bundle is saved before the PAD ids are asserted
Stages_SaveBeforeAssert ==
    <<"subsample", "split", "normalize", "tokenize_src", "tokenize_target",
      "filter", "train_dataset", "validation_dataset", "test_dataset",
      "loaders", "save", "assert_pad">>

Stages ==
    <<"subsample", "split", "normalize", "tokenize_src", "tokenize_target",
      "filter", "train_dataset", "validation_dataset", "test_dataset",
      "assert_pad", "loaders", "save">>

NextStage(stage) ==
    LET i == CHOOSE j \in DOMAIN Stages : Stages[j] = stage
    IN  IF i = Len(Stages) THEN "done" ELSE Stages[i + 1]

\* the stage ran to its end: control moves to the next one
Advance(stage) ==
    /\ pc' = NextStage(stage)
    /\ completed' = Append(completed, stage)
    /\ error' = error

\* an uncaught exception ends the run
Raise(exception) ==
    /\ pc' = "failed"
    /\ error' = exception
    /\ completed' = completed

(***************************************************************************)
(* Library and helper functions used by preprocess.                        *)
(***************************************************************************)
\* Dataset.shuffle(seed).select(range(n)), line 45: n rows of the dataset,
\* which ones depends on the seed
ShuffleSelect(dataset, n) == {S \in SUBSET dataset : Cardinality(S) = n}

\* ceil(n * num / den)
CeilMul(n, rate) == (n * rate[1] + rate[2] - 1) \div rate[2]

\* faulty variant of TrainTestSplit: the train part keeps the validation rows
TrainTestSplit_TrainKeepsAll(dataset, rate) ==
    LET n_test == CeilMul(Cardinality(dataset), rate)
    IN  IF Cardinality(dataset) - n_test <= 0 THEN {}
        ELSE {[train |-> dataset, test |-> T] :
                T \in {S \in SUBSET dataset : Cardinality(S) = n_test}}

\* Dataset.train_test_split(test_size=rate, seed=seed), line 49: the possible
\* results; none when the library raises ValueError (an empty train part)
TrainTestSplit(dataset, rate) ==
    LET n_test == CeilMul(Cardinality(dataset), rate)
    IN  IF Cardinality(dataset) - n_test <= 0 THEN {}
        ELSE {[train |-> dataset \ T, test |-> T] :
                T \in {S \in SUBSET dataset : Cardinality(S) = n_test}}

\* dataset_util.process_dataset_sentences, lines 56-59: cleans the text of
\* every row and keeps the rows of every split.  The Catalogue holds the
\* text as cleaned.
ProcessDatasetSentences(datasets) == datasets

\* faulty variant of TokenizerTrainingSplit: every split feeds the trainer
TokenizerTrainingSplit_AllSplits(datasets) ==
    UNION {datasets[k] : k \in DOMAIN datasets}

\* lines 64-65: the dataset handed to tokenize
TokenizerTrainingSplit(datasets) == datasets["train"]

\* faulty variant of MaxContentLen: no slot is reserved for SOS and EOS
MaxContentLen_NoReservedTokens(cfg) == cfg.seq_length

\* line 72: config['seq_length'] - num_reserved_tokens
MaxContentLen(cfg) == cfg.seq_length - num_reserved_tokens

\* Tokenizer.encode(text).ids of a WordLevel tokenizer: one id per word, UNK
\* for a word outside the vocabulary
Encode(tokenizer, text) ==
    LET words == Whitespace(text)
    IN  [i \in DOMAIN words |->
            IF words[i] \in tokenizer.vocab THEN words[i] ELSE UNK_TOKEN]

\* dataset_util.remove_invalid_sentences, lines 69-75: in every split, keeps
\* the rows whose two sides both have at most max_len tokens
RemoveInvalidSentences(datasets, src_tok, target_tok, max_len) ==
    [k \in DOMAIN datasets |->
        {r \in datasets[k] :
            /\ Len(Encode(src_tok, Sentence(r, "src"))) <= max_len
            /\ Len(Encode(target_tok, Sentence(r, "tgt"))) <= max_len}]

Pad(n) == [i \in 1..n |-> PAD_TOKEN]

\* BilingualDataset.__getitem__: the three sequences of one row
EncodeExample(r, src_tok, target_tok, seq_length) ==
    LET s == Encode(src_tok, Sentence(r, "src"))
        t == Encode(target_tok, Sentence(r, "tgt"))
    IN  [encoder_input |-> s \o <<EOS_TOKEN>> \o Pad(seq_length - Len(s) - 1),
         decoder_input |-> <<SOS_TOKEN>> \o t \o Pad(seq_length - Len(t) - 1),
         labels        |-> t \o <<EOS_TOKEN>> \o Pad(seq_length - Len(t) - 1)]

\* BilingualDataset: an example does not fit seq_length
TooLong(dataset, seq_length) ==
    \E r \in dataset :
        \/ Len(Whitespace(Sentence(r, "src"))) + 1 > seq_length
        \/ Len(Whitespace(Sentence(r, "tgt"))) + 1 > seq_length

\* BilingualDataset(dataset, src_tokenizer, target_tokenizer, ..., seq_length),
\* lines 81-104
BilingualDataset(dataset, src_tok, target_tok, seq_length) ==
    [r \in dataset |-> EncodeExample(r, src_tok, target_tok, seq_length)]

\* faulty variant of PadIdsAgree: the assertion checks nothing
PadIdsAgree_AssertDisabled(src_tok, target_tok) == TRUE

\* line 106: the asserted condition
PadIdsAgree(src_tok, target_tok) == TokenToIdPad(src_tok) = TokenToIdPad(target_tok)


(***************************************************************************)
(* preprocess, lines 37-126.                                               *)
(***************************************************************************)
PreprocessInit ==
    /\ config \in Configs
    /\ raw_datasets \in RawCorpora
    /\ loaded = raw_datasets
    /\ split_rows = <<>>
    /\ num_rows = <<>>
    /\ src_tokenizer = None
    /\ target_tokenizer = None
    /\ train_dataset = None
    /\ validation_dataset = None
    /\ test_dataset = None
    /\ data_collator = None
    /\ data_loaders = None
    /\ files = {}
    /\ completed = <<>>
    /\ pc = "subsample"
    /\ error = ""

\* lines 43-45
Subsample ==
    /\ pc = "subsample"
    /\ UNCHANGED svars
    /\ LET max_train_set_size == config.max_train_set_size
           train == raw_datasets["train"]
       IN  IF ~IsNone(max_train_set_size)
              /\ Get(max_train_set_size) < Cardinality(train)
           THEN \E S \in ShuffleSelect(train, Get(max_train_set_size)) :
                    raw_datasets' = [raw_datasets EXCEPT !["train"] = S]
           ELSE raw_datasets' = raw_datasets
    /\ Advance("subsample")
    /\ UNCHANGED <<config, loaded, split_rows, num_rows, src_tokenizer,
                   target_tokenizer, train_dataset, validation_dataset,
                   test_dataset, data_collator, data_loaders, files>>

\* lines 47-53
Split ==
    /\ pc = "split"
    /\ UNCHANGED svars
    /\ IF IsNone(config.val_size_rate)
       THEN raw_datasets' = raw_datasets /\ Advance("split")
       ELSE LET old_datasets == raw_datasets
                results == TrainTestSplit(old_datasets["train"],
                                          Get(config.val_size_rate))
            IN  IF results = {}
                THEN raw_datasets' = raw_datasets /\ Raise("ValueError")
                ELSE IF "test" \notin DOMAIN old_datasets
                THEN \E res \in results :
                        /\ raw_datasets' =
                             [k \in {"train", "validation"} |->
                                IF k = "train" THEN res.train ELSE res.test]
                        /\ Raise("KeyError")
                ELSE \E res \in results :
                        /\ raw_datasets' =
                             [k \in SplitNames |->
                                CASE k = "train" -> res.train
                                  [] k = "validation" -> res.test
                                  [] k = "test" -> old_datasets["test"]]
                        /\ Advance("split")
    /\ UNCHANGED <<config, loaded, split_rows, num_rows, src_tokenizer,
                   target_tokenizer, train_dataset, validation_dataset,
                   test_dataset, data_collator, data_loaders, files>>

\* lines 55-61
Normalize ==
    /\ pc = "normalize"
    /\ UNCHANGED svars
    /\ num_rows' = [k \in DOMAIN raw_datasets |-> Cardinality(raw_datasets[k])]
    /\ split_rows' = raw_datasets
    /\ raw_datasets' = ProcessDatasetSentences(raw_datasets)
    /\ Advance("normalize")
    /\ UNCHANGED <<config, loaded, src_tokenizer, target_tokenizer,
                   train_dataset, validation_dataset, test_dataset,
                   data_collator, data_loaders, files>>

\* line 64, with tokenize, lines 20-35: trains and saves the source tokenizer
TokenizeSrc ==
    /\ pc = "tokenize_src"
    /\ UNCHANGED svars
    /\ \E pad_id \in 0..MaxPadId :
          src_tokenizer' =
              Some(Tokenize(TokenizerTrainingSplit(raw_datasets), "src", MinFreq, pad_id))
    /\ files' = files \cup {TokenizerPath("src")}
    /\ Advance("tokenize_src")
    /\ UNCHANGED <<config, raw_datasets, loaded, split_rows, num_rows,
                   target_tokenizer, train_dataset, validation_dataset,
                   test_dataset, data_collator, data_loaders>>

\* line 65, with tokenize, lines 20-35: trains and saves the target tokenizer
TokenizeTarget ==
    /\ pc = "tokenize_target"
    /\ UNCHANGED svars
    /\ \E pad_id \in 0..MaxPadId :
          target_tokenizer' =
              Some(Tokenize(TokenizerTrainingSplit(raw_datasets), "tgt", MinFreq, pad_id))
    /\ files' = files \cup {TokenizerPath("tgt")}
    /\ Advance("tokenize_target")
    /\ UNCHANGED <<config, raw_datasets, loaded, split_rows, num_rows,
                   src_tokenizer, train_dataset, validation_dataset,
                   test_dataset, data_collator, data_loaders>>

\* lines 67-79
Filter ==
    /\ pc = "filter"
    /\ UNCHANGED svars
    /\ raw_datasets' = RemoveInvalidSentences(raw_datasets, Get(src_tokenizer),
                                              Get(target_tokenizer),
                                              MaxContentLen(config))
    /\ Advance("filter")
    /\ UNCHANGED <<config, loaded, split_rows, num_rows, src_tokenizer,
                   target_tokenizer, train_dataset, validation_dataset,
                   test_dataset, data_collator, data_loaders, files>>

\* what BilingualDataset(raw_datasets[name], ...) evaluates to: KeyError when
\* the split is missing, ValueError when an example does not fit seq_length
DatasetFor(name) ==
    IF name \notin DOMAIN raw_datasets THEN [exception |-> "KeyError", value |-> None]
    ELSE IF TooLong(raw_datasets[name], config.seq_length)
    THEN [exception |-> "ValueError", value |-> None]
    ELSE [exception |-> "",
          value |-> Some(BilingualDataset(raw_datasets[name], Get(src_tokenizer),
                                          Get(target_tokenizer), config.seq_length))]

\* lines 81-88
BuildTrainDataset ==
    /\ pc = "train_dataset"
    /\ UNCHANGED svars
    /\ LET res == DatasetFor("train")
       IN  IF res.exception # ""
           THEN train_dataset' = train_dataset /\ Raise(res.exception)
           ELSE train_dataset' = res.value /\ Advance("train_dataset")
    /\ UNCHANGED <<config, raw_datasets, loaded, split_rows, num_rows,
                   src_tokenizer, target_tokenizer, validation_dataset,
                   test_dataset, data_collator, data_loaders, files>>

\* lines 89-96
BuildValidationDataset ==
    /\ pc = "validation_dataset"
    /\ UNCHANGED svars
    /\ LET res == DatasetFor("validation")
       IN  IF res.exception # ""
           THEN validation_dataset' = validation_dataset /\ Raise(res.exception)
           ELSE validation_dataset' = res.value /\ Advance("validation_dataset")
    /\ UNCHANGED <<config, raw_datasets, loaded, split_rows, num_rows,
                   src_tokenizer, target_tokenizer, train_dataset,
                   test_dataset, data_collator, data_loaders, files>>

\* lines 97-104
BuildTestDataset ==
    /\ pc = "test_dataset"
    /\ UNCHANGED svars
    /\ LET res == DatasetFor("test")
       IN  IF res.exception # ""
           THEN test_dataset' = test_dataset /\ Raise(res.exception)
           ELSE test_dataset' = res.value /\ Advance("test_dataset")
    /\ UNCHANGED <<config, raw_datasets, loaded, split_rows, num_rows,
                   src_tokenizer, target_tokenizer, train_dataset,
                   validation_dataset, data_collator, data_loaders, files>>

\* line 106
AssertPad ==
    /\ pc = "assert_pad"
    /\ UNCHANGED svars
    /\ IF PadIdsAgree(Get(src_tokenizer), Get(target_tokenizer))
       THEN Advance("assert_pad")
       ELSE Raise("AssertionError")
    /\ UNCHANGED <<config, raw_datasets, loaded, split_rows, num_rows,
                   src_tokenizer, target_tokenizer, train_dataset,
                   validation_dataset, test_dataset, data_collator,
                   data_loaders, files>>

\* lines 107-122.  The train DataLoader shuffles: on an empty train dataset
\* torch's RandomSampler raises ValueError in some releases and accepts it in
\* others.
BuildLoaders ==
    /\ pc = "loaders"
    /\ UNCHANGED svars
    /\ data_collator' = Some([pad_token_id |-> TokenToIdPad(Get(src_tokenizer))])
    /\ \E raises \in IF DOMAIN Get(train_dataset) = {} THEN BOOLEAN ELSE {FALSE} :
          IF raises
          THEN data_loaders' = data_loaders /\ Raise("ValueError")
          ELSE /\ data_loaders' =
                    Some([train      |-> [dataset |-> Get(train_dataset),
                                          shuffle |-> TRUE],
                          validation |-> [dataset |-> Get(validation_dataset),
                                          shuffle |-> FALSE],
                          test       |-> [dataset |-> Get(test_dataset),
                                          shuffle |-> FALSE]])
               /\ Advance("loaders")
    /\ UNCHANGED <<config, raw_datasets, loaded, split_rows, num_rows,
                   src_tokenizer, target_tokenizer, train_dataset,
                   validation_dataset, test_dataset, files>>

\* lines 123-126
Save ==
    /\ pc = "save"
    /\ UNCHANGED svars
    /\ files' = files \cup {DataLoadersPath}
    /\ Advance("save")
    /\ UNCHANGED <<config, raw_datasets, loaded, split_rows, num_rows,
                   src_tokenizer, target_tokenizer, train_dataset,
                   validation_dataset, test_dataset, data_collator,
                   data_loaders>>

Next ==
    \/ Subsample
    \/ Split
    \/ Normalize
    \/ TokenizeSrc
    \/ TokenizeTarget
    \/ Filter
    \/ BuildTrainDataset
    \/ BuildValidationDataset
    \/ BuildTestDataset
    \/ AssertPad
    \/ BuildLoaders
    \/ Save

(***************************************************************************)
(* Stats, src/nmt/utils/stats.py.  A list is an object: a Stats instance   *)
(* holds references to its pred and labels lists.  The lists of the        *)
(* default arguments pred=[] and labels=[] are created once, when the      *)
(* class body is executed.                                                 *)
(***************************************************************************)
Instances == {1, 2}
DefaultPred == <<"default", "pred">>
DefaultLabels == <<"default", "labels">>
\* a list the caller creates for instance i and passes to the constructor
CallerList(i, field) == <<"caller", field, i>>
ListRefs == {DefaultPred, DefaultLabels}
            \cup {CallerList(i, f) : i \in Instances, f \in {"pred", "labels"}}

\* the state of the module once the class is defined: no instance, every
\* list empty
StatsIdle ==
    /\ lists = [ref \in ListRefs |-> <<>>]
    /\ stats = [i \in Instances |-> None]
    /\ raised = ""
    /\ own_batches = [i \in Instances |-> [default_args |-> FALSE,
                                           pred |-> <<>>, labels |-> <<>>]]

\* the state of the variables of preprocess while no run is in progress
PreprocessIdle ==
    /\ config = [max_train_set_size |-> None, val_size_rate |-> None,
                 seq_length |-> 6]
    /\ raw_datasets = <<>>
    /\ loaded = <<>>
    /\ split_rows = <<>>
    /\ num_rows = <<>>
    /\ src_tokenizer = None
    /\ target_tokenizer = None
    /\ train_dataset = None
    /\ validation_dataset = None
    /\ test_dataset = None
    /\ data_collator = None
    /\ data_loaders = None
    /\ files = {}
    /\ completed = <<>>
    /\ pc = "idle"
    /\ error = ""

Arrays == [1..BatchLen -> 0..MaxTokenId]

\* __init__, lines 15 and 24: the list self.pred refers to
PredArgument(i, explicit) ==
    IF explicit THEN CallerList(i, "pred") ELSE DefaultPred

\* __init__, lines 16 and 25: the list self.labels refers to
LabelsArgument(i, explicit) ==
    IF explicit THEN CallerList(i, "labels") ELSE DefaultLabels

\* Stats.__init__, lines 11-35; explicit: the caller passes lists of its own
\* for pred and labels
StatsConstruct(i, explicit, pad_token_id, ignore_padding) ==
    /\ pc = "idle"
    /\ IsNone(stats[i])
    /\ IF ignore_padding /\ IsNone(pad_token_id)
       THEN /\ raised' = "ValueError"
            /\ UNCHANGED <<stats, own_batches>>
       ELSE /\ raised' = ""
            /\ stats' = [stats EXCEPT ![i] =
                  Some([num_batchs     |-> 0,
                        loss           |-> 0,
                        pred           |-> PredArgument(i, explicit),
                        labels         |-> LabelsArgument(i, explicit),
                        ignore_padding |-> ignore_padding,
                        pad_token_id   |-> pad_token_id,
                        num_matches    |-> 0,
                        num_totals     |-> 0])]
            /\ own_batches' = [own_batches EXCEPT ![i].default_args = ~explicit]
    /\ UNCHANGED lists
    /\ UNCHANGED pvars

Construct ==
    \E i \in Instances, explicit \in BOOLEAN, ignore_padding \in BOOLEAN,
       pad_token_id \in {None, Some(0)} :
        StatsConstruct(i, explicit, pad_token_id, ignore_padding)

\* the elements of array y at the positions where keep holds
RECURSIVE Select(_, _)
Select(y, keep) ==
    IF y = <<>> THEN <<>>
    ELSE (IF Head(keep) THEN <<Head(y)>> ELSE <<>>) \o Select(Tail(y), Tail(keep))

\* y != self.pad_token_id, elementwise; no element equals None
NotPad(y, pad_token_id) ==
    [j \in DOMAIN y |-> IsNone(pad_token_id) \/ y[j] # Get(pad_token_id)]

Count(flags) == Cardinality({j \in DOMAIN flags : flags[j]})

\* Stats.update_step, lines 37-65
StatsUpdateStep(i, loss, y_pred, y_true) ==
    /\ pc = "idle"
    /\ ~IsNone(stats[i])
    /\ Get(stats[i]).num_batchs < MaxUpdates
    /\ LET self == Get(stats[i])
           pred_keep == NotPad(y_pred, self.pad_token_id)
           true_keep == NotPad(y_true, self.pad_token_id)
           matches == [j \in DOMAIN y_pred |-> y_pred[j] = y_true[j] /\ pred_keep[j]]
           kept_pred == IF self.ignore_padding THEN Select(y_pred, true_keep) ELSE y_pred
           kept_true == IF self.ignore_padding THEN Select(y_true, true_keep) ELSE y_true
       IN  /\ stats' = [stats EXCEPT ![i] =
                 Some([self EXCEPT !.loss = @ + loss,
                                   !.num_batchs = @ + 1,
                                   !.num_matches = @ + Count(matches),
                                   !.num_totals = @ + Count(true_keep)])]
           /\ lists' = [lists EXCEPT ![self.pred] = Append(@, kept_pred),
                                     ![self.labels] = Append(@, kept_true)]
           /\ own_batches' = [own_batches EXCEPT ![i].pred = Append(@, kept_pred),
                                                 ![i].labels = Append(@, kept_true)]
    /\ raised' = ""
    /\ UNCHANGED pvars

UpdateStep ==
    \E i \in Instances, loss \in 0..MaxLoss, y_pred \in Arrays, y_true \in Arrays :
        StatsUpdateStep(i, loss, y_pred, y_true)

StatsInit == PreprocessIdle /\ StatsIdle
StatsNext ==
    \/ Construct
    \/ UpdateStep
SpecStats == StatsInit /\ [][StatsNext]_vars

\* C10: two Stats instances constructed with default arguments accumulate
\* independently: the pred and labels lists of each hold exactly what its own
\* update_step calls appended, num_batchs entries each.
C10_DefaultInstancesIndependent ==
    \A i \in Instances :
        ~IsNone(stats[i]) /\ own_batches[i].default_args =>
            /\ lists[Get(stats[i]).pred] = own_batches[i].pred
            /\ lists[Get(stats[i]).labels] = own_batches[i].labels
            /\ Len(lists[Get(stats[i]).pred]) = Get(stats[i]).num_batchs
            /\ Len(lists[Get(stats[i]).labels]) = Get(stats[i]).num_batchs

Init == PreprocessInit /\ StatsIdle
Spec == Init /\ [][Next]_vars


(***************************************************************************)
(* Properties of preprocess.                                               *)
(***************************************************************************)
Trained(tokenizer) == ~IsNone(tokenizer)
Ran(stage) == stage \in Range(completed)
Specials == Range(SpecialTokens)
TokenizerOf(lang) == IF lang = "src" THEN src_tokenizer ELSE target_tokenizer

\* occurrences of word w in the text of language lang of the rows
OccurrencesIn(rows, w, lang) == SumOver(rows, w, [r \in rows |-> Sentence(r, lang)])
WordsOf(row, lang) == Whitespace(Sentence(row, lang))

\* C1: every induced (non-sentinel) token of a trained vocabulary occurs at
\* least min_freq times in the text of that language in the train split as the
\* splitter left it, whatever the validation and test splits contain.
C1_VocabularyFromTrainOnly ==
    \A lang \in Langs :
        Trained(TokenizerOf(lang)) =>
            \A w \in Get(TokenizerOf(lang)).vocab \ Specials :
                OccurrencesIn(split_rows["train"], w, lang) >= MinFreq

\* C1's case: a word frequent enough over all the splits together, seen in
\* validation or test text, stays out of the source vocabulary, which holds
\* an induced token
C1_Witness ==
    /\ Trained(src_tokenizer)
    /\ Get(src_tokenizer).vocab \ Specials # {}
    /\ \E k \in DOMAIN split_rows \ {"train"} : \E r \in split_rows[k] :
         \E w \in Range(WordsOf(r, "src")) :
            /\ w \notin Get(src_tokenizer).vocab
            /\ OccurrencesIn(UNION {split_rows[j] : j \in DOMAIN split_rows}, w, "src")
                 >= MinFreq

FitsBudget(row, budget) ==
    /\ Len(WordsOf(row, "src")) <= budget
    /\ Len(WordsOf(row, "tgt")) <= budget

\* C2: once the length filter has run, every split holds exactly those of its
\* rows whose source and target token counts are both at most seq_length - 2.
C2_FilterKeepsExactlyFittingPairs ==
    Ran("filter") =>
        /\ DOMAIN raw_datasets = DOMAIN split_rows
        /\ \A k \in DOMAIN split_rows :
             raw_datasets[k] =
                {r \in split_rows[k] : FitsBudget(r, config.seq_length - 2)}

\* C2's case: the filter removed a pair and kept one whose length is the budget
C2_Witness ==
    /\ Ran("filter")
    /\ \E k \in DOMAIN split_rows : split_rows[k] \ raw_datasets[k] # {}
    /\ \E k \in DOMAIN raw_datasets : \E r \in raw_datasets[k] :
         Len(WordsOf(r, "src")) = config.seq_length - 2

\* the splits as the splitter left them
SplitResult == IF Ran("normalize") THEN split_rows ELSE raw_datasets
SplitDone == Ran("split") /\ ~IsNone(config.val_size_rate)
\* the size of the train split that the splitter divides
TruncatedTrainSize ==
    LET n == Cardinality(loaded["train"])
        m == config.max_train_set_size
    IN  IF ~IsNone(m) /\ Get(m) < n THEN Get(m) ELSE n

SplitsDisjoint(d) ==
    /\ d["train"] \cap d["validation"] = {}
    /\ (d["train"] \cup d["validation"]) \cap d["test"] = {}

\* C3 as stated: with a validation fraction configured, train and validation
\* are disjoint, share no pair with test, and their sizes add up to the size
\* of the original train split.
C3_Original ==
    SplitDone =>
        /\ SplitsDisjoint(SplitResult)
        /\ Cardinality(SplitResult["train"]) + Cardinality(SplitResult["validation"])
             = Cardinality(loaded["train"])

\* C3 amended: the sizes add up to the size of the train split after the
\* truncation to max_train_set_size.
C3_SplitPartitionsTruncatedTrain ==
    SplitDone =>
        /\ SplitsDisjoint(SplitResult)
        /\ SplitResult["train"] \cup SplitResult["validation"] \subseteq loaded["train"]
        /\ SplitResult["test"] = loaded["test"]
        /\ Cardinality(SplitResult["train"]) + Cardinality(SplitResult["validation"])
             = TruncatedTrainSize

\* C3's case: a truncated train split was divided
C3_Witness ==
    /\ SplitDone
    /\ TruncatedTrainSize < Cardinality(loaded["train"])
    /\ SplitResult["train"] # {}
    /\ SplitResult["validation"] # {}
    /\ SplitResult["test"] # {}

\* C4: from a raw corpus with only a train split and a configured validation
\* fraction, the splitter produces train, validation and test without raising
\* (a train split too small for the library to divide is left aside).
C4_UnsplitCorpusYieldsThreeSplits ==
    ( /\ DOMAIN loaded = {"train"}
      /\ ~IsNone(config.val_size_rate)
      /\ pc \notin {"subsample", "split"}
      /\ error # "ValueError" )
    => /\ pc # "failed"
       /\ DOMAIN raw_datasets = SplitNames

\* C5: with no validation fraction and no validation split in the raw corpus,
\* the split is skipped, nothing is raised and the run goes on to completion.
C5_NoValidationRunsToCompletion ==
    ( /\ IsNone(config.val_size_rate)
      /\ "validation" \notin DOMAIN loaded )
    => /\ pc # "failed"
       /\ Ran("split") => DOMAIN raw_datasets = DOMAIN loaded

PadIdsDiffer ==
    /\ Trained(src_tokenizer)
    /\ Trained(target_tokenizer)
    /\ TokenToIdPad(Get(src_tokenizer)) # TokenToIdPad(Get(target_tokenizer))

\* C6: when the PAD ids of the two vocabularies differ, the run never gets
\* past the assertion: no collator, no batch-source, no bundle; and whenever
\* the bundle is written the two PAD ids are equal.
C6_PadMismatchAborts ==
    /\ PadIdsDiffer =>
         /\ IsNone(data_collator)
         /\ IsNone(data_loaders)
         /\ DataLoadersPath \notin files
         /\ pc \notin {"loaders", "save", "done"}
         /\ Ran("test_dataset") /\ pc # "assert_pad" => error = "AssertionError"
    /\ DataLoadersPath \in files =>
         /\ Trained(src_tokenizer)
         /\ Trained(target_tokenizer)
         /\ ~PadIdsDiffer

\* C6's case: the assertion stopped a run whose PAD ids differ
C6_Witness ==
    /\ PadIdsDiffer
    /\ pc = "failed"
    /\ error = "AssertionError"


\* C7's scenario: the train split is the corpus [("a b", "c d"),
\* ("a a a a a a", "c")] (rows 1 and 2) and seq_length is 6
C7_Scenario ==
    /\ Ran("normalize")
    /\ split_rows["train"] = {1, 2}
    /\ config.seq_length = 6

PadSlots(seq) == Cardinality({i \in DOMAIN seq : seq[i] = PAD_TOKEN})
Fields(example) == {example.encoder_input, example.decoder_input, example.labels}

InMemoryStages ==
    {"subsample", "split", "normalize", "tokenize_src", "tokenize_target",
     "filter", "train_dataset", "validation_dataset", "test_dataset",
     "assert_pad", "loaders"}
InMemoryStagesSucceeded == \A stage \in InMemoryStages : Ran(stage)

\* C8 as stated: nothing is written under checkpoints_dir until every
\* in-memory stage has succeeded, and a failed run leaves no vocabulary file
\* and no bundle.
C8_Original ==
    /\ files # {} => InMemoryStagesSucceeded
    /\ pc = "failed" => files = {}

\* C8 amended: the bundle is written only after every in-memory stage has
\* succeeded and a failed run leaves no bundle; a vocabulary file is written
\* by tokenize as soon as its vocabulary is trained, so a run that fails
\* later leaves the vocabulary files.
C8_BundleOnlyAfterAllStages ==
    /\ DataLoadersPath \in files => InMemoryStagesSucceeded /\ pc = "done"
    /\ pc = "failed" => DataLoadersPath \notin files
    /\ \A lang \in Langs : TokenizerPath(lang) \in files <=> Trained(TokenizerOf(lang))

\* C8's case: a run failed on the assertion with both vocabulary files written
C8_Witness ==
    /\ pc = "failed"
    /\ error = "AssertionError"
    /\ files = {TokenizerPath("src"), TokenizerPath("tgt")}

\* the stages in which the length filter or the encoder reads a split
TouchingStages == {"filter", "train_dataset", "validation_dataset", "test_dataset"}

C9_Step ==
    /\ pc' \in TouchingStages => Trained(src_tokenizer') /\ Trained(target_tokenizer')
    /\ pc \in TouchingStages => Trained(src_tokenizer) /\ Trained(target_tokenizer)
    /\ Trained(src_tokenizer) => src_tokenizer' = src_tokenizer
    /\ Trained(target_tokenizer) => target_tokenizer' = target_tokenizer

\* C9: whenever the length filter or the encoder is about to read a split,
\* both vocabularies are already trained, and no step changes a vocabulary
\* once it is trained.
C9_VocabulariesBeforeFilterAndFrozen == [][C9_Step]_vars

\* C9's case: the filter and the encoder have run over the splits
C9_Witness ==
    /\ Ran("filter")
    /\ Ran("test_dataset")
    /\ Trained(src_tokenizer)
    /\ Trained(target_tokenizer)

====
